---- MODULE Spec2Model ----
(***************************************************************************)
(* Model of Magnum's SceneGraph::Object (src/src/SceneGraph/Object.hpp):   *)
(* the parent/child tree, the dirty flag and its propagation, the uncached *)
(* absoluteTransformation(), the batch transformations() query with its    *)
(* joint reduction, and the setClean() family.                             *)
(*                                                                         *)
(* Objects are numbered 0..; object 0 is the Scene (isScene() is true for  *)
(* it alone).  A transformation value is a word over generators, compose   *)
(* is concatenation and the identity is the empty word: two compositions   *)
(* that agree here agree for every Transformation implementation, and a    *)
(* composition in the wrong order, done twice or left out is a different   *)
(* word.  The local transformation of object n is the one-letter word <<n>>*)
(*                                                                         *)
(* Every public call is one action.  The action records the call, the path *)
(* it took and what it returned in `last`; CallerContinues drops that      *)
(* record before the next call.  A failed CORRADE_ASSERT prints a message  *)
(* and aborts (or, in builds with CORRADE_GRACEFUL_ASSERT, returns the     *)
(* given value): the model records the state such a return leaves behind   *)
(* and takes no further step from it.                                      *)
(***************************************************************************)
EXTENDS Integers, Sequences, FiniteSets, TLC

\* Objects constructed in the general specification (the Scene included).
MaxObjects == 4
\* Longest object list handed to transformations() / setClean(objects).
MaxTargets == 3
\* Stand-in for the 16-bit index ceiling 0xFFFFu of the joint counter.
IndexLimit == 5

Null == -1
Scene == 0

\* counter == 0xFFFFu means "no joint index": the ceiling doubles as the marker.
NoCounter == IndexLimit

\* Every object any specification can hold (the capacity specification uses
\* one object more than the general one).
Universe == 0..MaxObjects

Identity == <<>>
compose(a, b) == a \o b
transformation(n) == <<n>>
\* A non-identity initial transformation: a generator no object carries.
InitialGenerator == <<MaxObjects + 1>>
\* Transformation::inverted(): the factors inverted, in reverse order.
inverted(a) == [i \in 1..Len(a) |-> 0 - a[Len(a) + 1 - i]]
\* Transformation::toMatrix(): the matrix holding the transformation.
toMatrix(a) == [matrix |-> a]

\* AbstractFeature::CachedTransformation, the kinds a feature can ask for.
Absolute == "Absolute"
InvertedAbsolute == "InvertedAbsolute"
CachedTransformations == SUBSET {Absolute, InvertedAbsolute}
\* Most features on the object of the clean-commit specification.
MaxFeatures == 3

VARIABLES
    objects,    \* the set of constructed objects
    parent,     \* parent[n]: the parent of n, or Null
    children,   \* children[n]: the child list of n, in list order
    dirty,      \* Flag::Dirty
    visited,    \* Flag::Visited
    joint,      \* Flag::Joint
    counter,    \* the joint index, NoCounter when unset
    features,   \* features[n]: cachedTransformations() of n's features, in list order
    last,       \* the call that has just returned (op = "none" between calls)
    frame       \* the locals of a batch query that runs step by step (pc = "none"
                \* when no query runs so)

vars == <<objects, parent, children, dirty, visited, joint, counter, features, last, frame>>
tree == <<objects, parent, children>>
marks == <<visited, joint, counter>>

isScene(n) == n = Scene

\* Statuses of a call that ended in a failed CORRADE_ASSERT.
AssertStatuses == {"tooLarge", "notScene", "notSameTree", "noScene", "internalAssert", "ub"}

NoCall ==
    [op |-> "none", node |-> Null, arg |-> Null, targets |-> <<>>,
     T0 |-> Identity, status |-> "none", result |-> <<>>,
     commits |-> <<>>, marked |-> <<>>, composes |-> 0,
     reads |-> [n \in Universe |-> 0], jointObjects |-> <<>>,
     hooks |-> <<>>, conversions |-> <<>>, kept |-> 0,
     walkJoint |-> [n \in Universe |-> FALSE],
     walkCounter |-> [n \in Universe |-> NoCounter]]

NoFrame == [pc |-> "none"]

Idle == last.op = "none" /\ frame.pc = "none"

Range(s) == {s[i] : i \in 1..Len(s)}

\* LinkedList::cut(item): the list without the item.
Cut(list, n) == SelectSeq(list, LAMBDA x : x # n)
\* LinkedList::insert(item) with no `before`: the item goes to the end.
Insert(list, n) == Append(list, n)

(***************************************************************************)
(* sceneObject(): up the parent links to the first Scene, or nullptr.      *)
(***************************************************************************)
RECURSIVE sceneObject(_)
sceneObject(p) ==
    IF p = Null THEN Null
    ELSE IF isScene(p) THEN p
    ELSE sceneObject(parent[p])

(***************************************************************************)
(* absoluteTransformation(): the uncached reference walk.                  *)
(***************************************************************************)
RECURSIVE absoluteTransformation(_)
absoluteTransformation(n) ==
    IF parent[n] = Null THEN transformation(n)
    ELSE compose(absoluteTransformation(parent[n]), transformation(n))

(***************************************************************************)
(* setDirty(): st = [dirty, marked]; `marked` lists the objects whose      *)
(* features got markDirty(), in call order.  ch is the child lists.        *)
(***************************************************************************)
RECURSIVE setDirty(_, _, _)
RECURSIVE setDirtyChildren(_, _, _, _)
\* Variant: the loop over the children (lines 107-108) left out.
setDirtyChildrenSkipped(st, ch, kids, i) == st

\* Lines 107-108: setDirty() on every child, in list order.
setDirtyChildren(st, ch, kids, i) ==
    IF i > Len(kids) THEN st
    ELSE setDirtyChildren(setDirty(st, ch, kids[i]), ch, kids, i + 1)

\* Variant: the early return of line 98 left out.
skipSetDirtyNever(st, n) == FALSE

\* Line 98: the object (and all its children) is already dirty.
skipSetDirty(st, n) == st.dirty[n]

setDirty(st, ch, n) ==
    IF skipSetDirty(st, n) THEN st
    ELSE LET s1 == [st EXCEPT !.marked = Append(@, n)]
             s2 == setDirtyChildren(s1, ch, ch[n], 1)
         IN  [s2 EXCEPT !.dirty[n] = TRUE]

(***************************************************************************)
(* setParent(): the loop of lines 73-78, whether `this` is `parent` or one *)
(* of its ancestors.                                                       *)
(***************************************************************************)
RECURSIVE isAmongAncestors(_, _)
\* Variant: only `parent == this` is refused, the ancestors are not walked.
isAmongAncestorsSelfOnly(p, this) == p = this

isAmongAncestors(p, this) ==
    IF p = Null THEN FALSE
    ELSE IF p = this THEN TRUE
    ELSE isAmongAncestors(parent[p], this)

\* Variant: the cut from the old parent's list (line 81) left out.
relinkWithoutCut(n, p) ==
    [parent |-> [parent EXCEPT ![n] = p],
     children |-> IF p # Null THEN [children EXCEPT ![p] = Insert(@, n)] ELSE children]

\* Lines 80-84: cut from the old parent's list, insert into the new one.
relink(n, p) ==
    LET ch1 == IF parent[n] # Null
               THEN [children EXCEPT ![parent[n]] = Cut(@, n)] ELSE children
        ch2 == IF p # Null THEN [ch1 EXCEPT ![p] = Insert(@, n)] ELSE ch1
    IN  [parent |-> [parent EXCEPT ![n] = p], children |-> ch2]

\* Variants: one half of the condition of line 70 left out.
skipSetParentSceneOnly(n, p) == isScene(n)
skipSetParentSameOnly(n, p) == parent[n] = p

\* Line 70: the parent is already the parent, or this is the scene.
skipSetParent(n, p) == parent[n] = p \/ isScene(n)

setParent(n, p) ==
    IF skipSetParent(n, p)
    THEN [status |-> "skipped", parent |-> parent, children |-> children,
          dirty |-> dirty, marked |-> <<>>]
    ELSE IF isAmongAncestors(p, n)
    THEN [status |-> "cycle", parent |-> parent, children |-> children,
          dirty |-> dirty, marked |-> <<>>]
    ELSE LET l == relink(n, p)
             d == setDirty([dirty |-> dirty, marked |-> <<>>], l.children, n)
         IN  [status |-> "ok", parent |-> l.parent, children |-> l.children,
              dirty |-> d.dirty, marked |-> d.marked]

(***************************************************************************)
(* transformations(): the batch query.  One record q carries the marks on  *)
(* the objects and the locals of the call:                                 *)
(*   objects       the work list (a copy of the argument), `it` its        *)
(*                 iterator as a 0-based position                          *)
(*   jointObjects  the joint list; jt is jointTransformations              *)
(*   composes      calls of Transformation::compose so far                 *)
(*   reads[n]      calls of n's transformation() so far                    *)
(*   steps         iterations of the work-list loop so far                 *)
(***************************************************************************)
Erase(list, pos) == SubSeq(list, 1, pos) \o SubSeq(list, pos + 2, Len(list))

\* Lines 187-194: mark the listed objects as joints, first occurrence wins.
RECURSIVE markObjects(_, _, _)
markObjects(q, objs, i) ==
    IF i = Len(objs) THEN q
    ELSE LET o == objs[i + 1] IN
         IF q.counter[o] # NoCounter THEN markObjects(q, objs, i + 1)
         ELSE markObjects([q EXCEPT !.counter[o] = i, !.joint[o] = TRUE], objs, i + 1)

\* Line 241: if(it == objects.end()) it = objects.begin().
cycleIfEnd(q) == IF q.it = Len(q.objects) THEN [q EXCEPT !.it = 0] ELSE q

\* Variant: the parent is never promoted to a joint.
promoteParentNever(q, p) == q

\* Variant: the joint index is the size of the joint list after the push.
promoteParentCountsAfterPush(q, p) ==
    IF q.joint[p] THEN q
    ELSE IF ~(Len(q.jointObjects) < IndexLimit) THEN [q EXCEPT !.status = "tooLarge"]
    ELSE IF q.counter[p] # NoCounter THEN [q EXCEPT !.status = "internalAssert"]
    ELSE [q EXCEPT !.counter[p] = Len(q.jointObjects) + 1, !.joint[p] = TRUE,
                   !.jointObjects = Append(@, p)]

\* Lines 226-235: the parent of a finished branch becomes a joint unless it is one.
promoteParent(q, p) ==
    IF q.joint[p] THEN q
    ELSE IF ~(Len(q.jointObjects) < IndexLimit) THEN [q EXCEPT !.status = "tooLarge"]
    ELSE IF q.counter[p] # NoCounter THEN [q EXCEPT !.status = "internalAssert"]
    ELSE [q EXCEPT !.counter[p] = Len(q.jointObjects), !.joint[p] = TRUE,
                   !.jointObjects = Append(@, p)]

\* Variant: line 223 tests Flag::Joint only.
parentReachedJointOnly(q, p) == q.joint[p]

\* Line 223: the parent is a joint or already visited.
parentReached(q, p) == q.visited[p] \/ q.joint[p]

\* Lines 206-241: one iteration of the loop over the work list.
walkStep(q, scene) ==
    IF ~(q.it < Len(q.objects)) THEN [q EXCEPT !.status = "ub"]
    ELSE LET o == q.objects[q.it + 1]
             n == [q EXCEPT !.steps = @ + 1]
         IN
         IF q.visited[o]
         THEN [n EXCEPT !.objects = Erase(@, q.it)]
         ELSE LET q1 == [n EXCEPT !.visited[o] = TRUE]
                  p == parent[o]
              IN
              IF p = Null
              THEN IF o # scene THEN [q1 EXCEPT !.status = "notSameTree"]
                   ELSE cycleIfEnd([q1 EXCEPT !.objects = Erase(@, q.it)])
              ELSE IF parentReached(q1, p)
              THEN LET q2 == promoteParent([q1 EXCEPT !.objects = Erase(@, q.it)], p)
                   IN  IF q2.status # "ok" THEN q2 ELSE cycleIfEnd(q2)
              ELSE cycleIfEnd([q1 EXCEPT !.objects[q.it + 1] = p])

\* Lines 204-242: mark all objects up the hierarchy as visited.
RECURSIVE markVisited(_, _)
markVisited(q, scene) ==
    IF q.objects = <<>> \/ q.status # "ok" THEN q
    ELSE markVisited(walkStep(q, scene), scene)

\* Lines 272-307.  q.ret is the value returned.
RECURSIVE computeJointTransformation(_, _, _)
RECURSIVE goUp(_, _, _, _)
goUp(q, jnt, T0, o) ==
    IF q.status # "ok" THEN q
    ELSE IF ~q.visited[o] THEN [q EXCEPT !.status = "internalAssert"]
    ELSE LET q1 == [q EXCEPT !.visited[o] = FALSE]
             p == parent[o]
         IN
         IF p = Null
         THEN IF ~isScene(o) THEN [q1 EXCEPT !.status = "internalAssert"]
              ELSE LET v == compose(T0, q1.jt[jnt + 1])
                   IN  [q1 EXCEPT !.jt[jnt + 1] = v, !.ret = v, !.composes = @ + 1]
         ELSE IF q1.joint[p]
         THEN LET r == computeJointTransformation(q1, q1.counter[p], T0)
                  v == compose(r.ret, r.jt[jnt + 1])
              IN  IF r.status # "ok" THEN r
                  ELSE [r EXCEPT !.jt[jnt + 1] = v, !.ret = v, !.composes = @ + 1]
         ELSE goUp([q1 EXCEPT !.jt[jnt + 1] = compose(transformation(p), @),
                              !.reads[p] = @ + 1, !.composes = @ + 1], jnt, T0, p)

computeJointTransformation(q, jnt, T0) ==
    IF ~(jnt < Len(q.jointObjects)) THEN [q EXCEPT !.status = "ub"]
    ELSE LET o == q.jointObjects[jnt + 1] IN
         IF ~q.visited[o] THEN [q EXCEPT !.ret = q.jt[jnt + 1]]
         ELSE goUp([q EXCEPT !.jt[jnt + 1] = transformation(o), !.reads[o] = @ + 1],
                   jnt, T0, o)

\* Lines 248-249.
RECURSIVE computeJoints(_, _, _)
computeJoints(q, T0, i) ==
    IF i = Len(q.jt) \/ q.status # "ok" THEN q
    ELSE computeJoints(computeJointTransformation(q, i, T0), T0, i + 1)

\* Lines 272-307, one step of the call stack of computeJointTransformation().
\* stack holds the locals [jnt, o] of every open call (the innermost is last)
\* and where it stands: "enter" before line 273, "loop" at line 283, "await"
\* while the recursive call of line 299 runs.
computeStep(q, stack, T0) ==
    LET d == Len(stack)
        jnt == stack[d].jnt
        pop == SubSeq(stack, 1, d - 1)
    IN
    IF stack[d].pc = "enter"
    THEN IF ~(jnt < Len(q.jointObjects)) THEN [q |-> [q EXCEPT !.status = "ub"], stack |-> stack]
         ELSE LET o == q.jointObjects[jnt + 1] IN
              IF ~q.visited[o] THEN [q |-> [q EXCEPT !.ret = q.jt[jnt + 1]], stack |-> pop]
              ELSE [q |-> [q EXCEPT !.jt[jnt + 1] = transformation(o), !.reads[o] = @ + 1],
                    stack |-> [stack EXCEPT ![d] = [jnt |-> jnt, o |-> o, pc |-> "loop"]]]
    ELSE IF stack[d].pc = "loop"
    THEN LET o == stack[d].o IN
         IF ~q.visited[o] THEN [q |-> [q EXCEPT !.status = "internalAssert"], stack |-> stack]
         ELSE LET q1 == [q EXCEPT !.visited[o] = FALSE]
                  p == parent[o]
              IN
              IF p = Null
              THEN IF ~isScene(o)
                   THEN [q |-> [q1 EXCEPT !.status = "internalAssert"], stack |-> stack]
                   ELSE LET v == compose(T0, q1.jt[jnt + 1])
                        IN  [q |-> [q1 EXCEPT !.jt[jnt + 1] = v, !.ret = v, !.composes = @ + 1],
                             stack |-> pop]
              ELSE IF q1.joint[p]
              THEN [q |-> q1,
                    stack |-> Append([stack EXCEPT ![d].pc = "await"],
                                     [jnt |-> q1.counter[p], o |-> Null, pc |-> "enter"])]
              ELSE [q |-> [q1 EXCEPT !.jt[jnt + 1] = compose(transformation(p), @),
                                     !.reads[p] = @ + 1, !.composes = @ + 1],
                    stack |-> [stack EXCEPT ![d].o = p]]
    ELSE LET v == compose(q.ret, q.jt[jnt + 1])
         IN  [q |-> [q EXCEPT !.jt[jnt + 1] = v, !.ret = v, !.composes = @ + 1],
              stack |-> pop]

\* Lines 253-256: later occurrences of an object copy the first one's value.
RECURSIVE copyDuplicates(_, _, _)
\* Variant: the copy left out.
copyDuplicatesSkipped(q, objectCount, i) == q

copyDuplicates(q, objectCount, i) ==
    IF i = objectCount THEN q
    ELSE LET c == q.counter[q.jointObjects[i + 1]] IN
         IF c = i THEN copyDuplicates(q, objectCount, i + 1)
         ELSE IF ~(c < Len(q.jt)) THEN [q EXCEPT !.status = "ub"]
         ELSE copyDuplicates([q EXCEPT !.jt[i + 1] = q.jt[c + 1]], objectCount, i + 1)

\* Variant: the joint flag is cleared, the counter (line 264) is not.
cleanJointMarksKeepCounter(q) ==
    [q EXCEPT !.joint = [n \in Universe |-> IF n \in Range(q.jointObjects) THEN FALSE ELSE @[n]]]

\* Variant: line 263 clears Flag::Dirty together with Flag::Joint.
cleanJointMarksClearsDirty(q) ==
    [q EXCEPT !.joint = [n \in Universe |-> IF n \in Range(q.jointObjects) THEN FALSE ELSE @[n]],
              !.dirty = [n \in Universe |-> IF n \in Range(q.jointObjects) THEN FALSE ELSE @[n]],
              !.counter = [n \in Universe |-> IF n \in Range(q.jointObjects) THEN NoCounter ELSE @[n]]]

\* Lines 259-265: clean joint marks and counters of everything in jointObjects.
\* (The assertion of line 262 assigns counter = 1, which line 264 overwrites.)
cleanJointMarks(q) ==
    [q EXCEPT !.joint = [n \in Universe |-> IF n \in Range(q.jointObjects) THEN FALSE ELSE @[n]],
              !.counter = [n \in Universe |-> IF n \in Range(q.jointObjects) THEN NoCounter ELSE @[n]]]

\* Line 245: the array of absolute transformations in joints.
jointTransformations(q) ==
    [q EXCEPT !.jt = [i \in 1..Len(q.jointObjects) |-> Identity]]

\* Lines 251-269: copy the duplicates, clean the joint marks, shrink.
finishJoints(q5, objectCount) ==
    LET q6 == IF q5.status = "ok" THEN copyDuplicates(q5, objectCount, 0) ELSE q5
    IN  IF q6.status # "ok" THEN q6
        ELSE LET q7 == cleanJointMarks(q6)
             IN  [q7 EXCEPT !.result = SubSeq(q7.jt, 1, objectCount)]

\* Lines 245-269, after the walk.
solveJoints(q, objectCount, T0) ==
    finishJoints(computeJoints(jointTransformations(q), T0, 0), objectCount)

\* Lines 180-201: the checks and the marking before the walk.  m = [dirty,
\* visited, joint, counter] are the flags and the counters at the call.
startQuery(m, self, objs) ==
    LET q0 == [dirty |-> m.dirty, visited |-> m.visited, joint |-> m.joint,
               counter |-> m.counter,
               objects |-> objs, it |-> 0, jointObjects |-> <<>>, jt |-> <<>>,
               ret |-> Identity, composes |-> 0, reads |-> [n \in Universe |-> 0],
               steps |-> 0, status |-> "ok", result |-> <<>>,
               walkJoint |-> [n \in Universe |-> FALSE],
               walkCounter |-> [n \in Universe |-> NoCounter]]
    IN
    IF ~(Len(objs) < IndexLimit) THEN [q0 EXCEPT !.status = "tooLarge"]
    ELSE LET q1 == markObjects(q0, objs, 0)
             q2 == [q1 EXCEPT !.jointObjects = objs]
         IN
         IF sceneObject(self) # self THEN [q2 EXCEPT !.status = "notScene"] ELSE q2

\* Lines 179-270.  walkJoint and walkCounter keep the joint marks as they are
\* when the walk of lines 204-242 ends.
transformations(m, self, objs, T0) ==
    LET q2 == startQuery(m, self, objs)
        scene == sceneObject(self)
    IN
         IF q2.status # "ok" THEN q2
         ELSE LET qw == markVisited(q2, scene)
                  q3 == [qw EXCEPT !.walkJoint = qw.joint, !.walkCounter = qw.counter]
              IN  IF q3.status # "ok" THEN q3
                  ELSE solveJoints(q3, Len(objs), T0)

(***************************************************************************)
(* setClean(absoluteTransformation), lines 357-391: the clean-commit of    *)
(* one object.  c = [dirty, commits, hooks, conversions, status]:          *)
(*   commits      the commits of the call, <<object, absolute              *)
(*                transformation>>, in call order                          *)
(*   hooks        the calls of clean() / cleanInverted(), <<object,        *)
(*                feature position, kind, matrix>>, in call order          *)
(*   conversions  the calls of toMatrix(), <<object, kind>>, in call order *)
(* l = [cached, matrix, invertedMatrix] are the locals of lines 360-362.   *)
(***************************************************************************)
\* Variant: the tests of lines 369 and 380 left out, every feature converts.
needsConversionAlways(cached, kind) == TRUE

\* Lines 369, 380: the matrix of this kind was not computed already.
needsConversion(cached, kind) == kind \notin cached

\* Lines 368-375.
cleanAbsolute(c, l, o, abs, i) ==
    IF Absolute \notin features[o][i] THEN [c |-> c, l |-> l]
    ELSE LET conv == needsConversion(l.cached, Absolute)
             l1 == IF conv THEN [l EXCEPT !.cached = @ \cup {Absolute},
                                          !.matrix = toMatrix(abs)]
                   ELSE l
             c1 == IF conv THEN [c EXCEPT !.conversions = Append(@, <<o, Absolute>>)]
                   ELSE c
         IN  [c |-> [c1 EXCEPT !.hooks = Append(@, <<o, i, Absolute, l1.matrix>>)], l |-> l1]

\* Lines 379-386.
cleanInverted(c, l, o, abs, i) ==
    IF InvertedAbsolute \notin features[o][i] THEN [c |-> c, l |-> l]
    ELSE LET conv == needsConversion(l.cached, InvertedAbsolute)
             l1 == IF conv THEN [l EXCEPT !.cached = @ \cup {InvertedAbsolute},
                                          !.invertedMatrix = toMatrix(inverted(abs))]
                   ELSE l
             c1 == IF conv THEN [c EXCEPT !.conversions = Append(@, <<o, InvertedAbsolute>>)]
                   ELSE c
         IN  [c |-> [c1 EXCEPT !.hooks = Append(@, <<o, i, InvertedAbsolute, l1.invertedMatrix>>)],
              l |-> l1]

\* Lines 365-387: clean all features, in list order.
RECURSIVE cleanFeatures(_, _, _, _, _)
cleanFeatures(c, l, o, abs, i) ==
    IF i > Len(features[o]) THEN c
    ELSE LET a == cleanAbsolute(c, l, o, abs, i)
             b == cleanInverted(a.c, a.l, o, abs, i)
         IN  cleanFeatures(b.c, b.l, o, abs, i + 1)

setCleanTransformation(c, o, abs) ==
    LET l0 == [cached |-> {}, matrix |-> toMatrix(Identity),
               invertedMatrix |-> toMatrix(Identity)]
        c1 == cleanFeatures(c, l0, o, abs, 1)
    IN  [c1 EXCEPT !.dirty[o] = FALSE, !.commits = Append(@, <<o, abs>>)]

\* The record of a clean pass that has committed nothing yet.
NoCommits(d) ==
    [dirty |-> d, commits |-> <<>>, hooks |-> <<>>, conversions |-> <<>>, status |-> "ok"]

(***************************************************************************)
(* setClean(), lines 114-149.                                              *)
(***************************************************************************)
\* Lines 122-136: the stack of this and its dirty parents (top is last) and
\* the base transformation.
RECURSIVE collectParents(_, _)
collectParents(stack, p) ==
    LET s1 == Append(stack, p)
        pp == parent[p]
    IN  IF pp = Null THEN [stack |-> s1, base |-> Identity]
        ELSE IF ~dirty[pp] THEN [stack |-> s1, base |-> absoluteTransformation(pp)]
        ELSE collectParents(s1, pp)

RECURSIVE cleanCollectedBottomFirst(_, _, _)
\* Variant: the collected objects are taken in the order they were pushed.
cleanCollectedBottomFirst(c, stack, abs) ==
    IF stack = <<>> THEN c
    ELSE LET o == stack[1]
             a == compose(abs, transformation(o))
         IN  IF ~c.dirty[o] THEN [c EXCEPT !.status = "internalAssert"]
             ELSE cleanCollectedBottomFirst(setCleanTransformation(c, o, a),
                                            SubSeq(stack, 2, Len(stack)), a)

\* Lines 139-148: clean the collected objects, going down from the top one.
RECURSIVE cleanCollected(_, _, _)
cleanCollected(c, stack, abs) ==
    IF stack = <<>> THEN c
    ELSE LET o == stack[Len(stack)]
             a == compose(abs, transformation(o))
         IN  IF ~c.dirty[o] THEN [c EXCEPT !.status = "internalAssert"]
             ELSE cleanCollected(setCleanTransformation(c, o, a),
                                 SubSeq(stack, 1, Len(stack) - 1), a)

setClean(n) ==
    LET c0 == NoCommits(dirty) IN
    IF ~dirty[n] THEN [c0 EXCEPT !.status = "alreadyClean"]
    ELSE LET col == collectParents(<<>>, n)
         IN  cleanCollected(c0, col.stack, col.base)

(***************************************************************************)
(* setClean(objects), lines 318-355.                                       *)
(***************************************************************************)
\* Variant: the clean objects stay in the list.
removeCleanSkipped(objs) == objs

\* Lines 320-321: remove all clean objects from the list.
removeClean(objs) == SelectSeq(objs, LAMBDA o : dirty[o])

\* Variant: the parents are not added.
addParentsOfSkipped(list, vis, p) == list

\* Lines 333-336: append the parents that are dirty and not marked visited.
RECURSIVE addParentsOf(_, _, _)
addParentsOf(list, vis, p) ==
    IF p # Null /\ ~vis[p] /\ dirty[p]
    THEN addParentsOf(Append(list, p), vis, parent[p])
    ELSE list

\* Lines 328-337: for the first `end` entries, mark the entry visited and add
\* its parents.
RECURSIVE addParents(_, _, _, _)
addParents(list, vis, end, i) ==
    IF i = end THEN [objects |-> list, visited |-> vis]
    ELSE LET o == list[i + 1]
             vis1 == [vis EXCEPT ![o] = TRUE]
         IN  addParents(addParentsOf(list, vis1, parent[o]), vis1, end, i + 1)

RECURSIVE cleanAllNoSkip(_, _, _, _)
\* Variant: the test of line 350 left out.
cleanAllNoSkip(c, list, trs, i) ==
    IF i = Len(list) THEN c
    ELSE cleanAllNoSkip(setCleanTransformation(c, list[i + 1], trs[i + 1]), list, trs, i + 1)

RECURSIVE cleanAllFirstResult(_, _, _, _)
\* Variant: every object is cleaned with the first transformation.
cleanAllFirstResult(c, list, trs, i) ==
    IF i = Len(list) THEN c
    ELSE IF ~c.dirty[list[i + 1]] THEN cleanAllFirstResult(c, list, trs, i + 1)
    ELSE cleanAllFirstResult(setCleanTransformation(c, list[i + 1], trs[1]), list, trs, i + 1)

\* Lines 348-354: clean every entry that is still dirty.
RECURSIVE cleanAll(_, _, _, _)
cleanAll(c, list, trs, i) ==
    IF i = Len(list) THEN c
    ELSE IF ~c.dirty[list[i + 1]] THEN cleanAll(c, list, trs, i + 1)
    ELSE cleanAll(setCleanTransformation(c, list[i + 1], trs[i + 1]), list, trs, i + 1)

\* r.kept is the length of the list after lines 320-321, r.expanded the list
\* handed to the solver.
setCleanObjects(objs) ==
    LET r0 == [status |-> "ok", dirty |-> dirty, visited |-> visited, joint |-> joint,
               counter |-> counter, commits |-> <<>>, hooks |-> <<>>,
               conversions |-> <<>>, kept |-> 0, expanded |-> <<>>,
               composes |-> 0, reads |-> [n \in Universe |-> 0], jointObjects |-> <<>>,
               walkJoint |-> [n \in Universe |-> FALSE],
               walkCounter |-> [n \in Universe |-> NoCounter]]
        dirtyObjs == removeClean(objs)
    IN
    IF dirtyObjs = <<>> THEN [r0 EXCEPT !.status = "nothingDirty"]
    ELSE LET a == addParents(dirtyObjs, visited, Len(dirtyObjs), 0)
             vis == [n \in Universe |-> IF n \in Range(a.objects) THEN FALSE ELSE a.visited[n]]
             r1 == [r0 EXCEPT !.visited = vis, !.kept = Len(dirtyObjs),
                              !.expanded = a.objects]
             scene == sceneObject(a.objects[1])
         IN
         IF scene = Null THEN [r1 EXCEPT !.status = "noScene"]
         ELSE LET t == transformations([dirty |-> dirty, visited |-> vis, joint |-> joint,
                                        counter |-> counter],
                                       scene, a.objects, Identity)
                  r2 == [r1 EXCEPT !.dirty = t.dirty, !.visited = t.visited,
                                   !.joint = t.joint,
                                   !.counter = t.counter, !.composes = t.composes,
                                   !.reads = t.reads, !.jointObjects = t.jointObjects,
                                   !.walkJoint = t.walkJoint, !.walkCounter = t.walkCounter,
                                   !.status = t.status]
              IN  IF t.status # "ok" THEN r2
                  ELSE LET c == cleanAll(NoCommits(t.dirty), a.objects, t.result, 0)
                       IN  [r2 EXCEPT !.dirty = c.dirty, !.commits = c.commits,
                                      !.hooks = c.hooks, !.conversions = c.conversions]

(***************************************************************************)
(* The calls.                                                              *)
(***************************************************************************)
TargetLists(maxLen) == UNION {[1..k -> objects] : k \in 0..maxLen}

\* The features the application attaches to the n-th object it constructs:
\* none, one, two asking for overlapping kinds, two asking for the same kind.
FeaturesAtCreation(n) ==
    IF n = 1 THEN <<{Absolute}>>
    ELSE IF n = 2 THEN <<{Absolute, InvertedAbsolute}, {InvertedAbsolute}>>
    ELSE IF n = 3 THEN <<{Absolute}, {Absolute}>>
    ELSE <<>>

\* Object(): constructed detached and dirty, with no marks.
Create ==
    /\ Idle
    /\ Cardinality(objects) < MaxObjects
    /\ \E n \in {Cardinality(objects)} :
        /\ objects' = objects \cup {n}
        /\ features' = [features EXCEPT ![n] = FeaturesAtCreation(n)]
        /\ last' = [NoCall EXCEPT !.op = "create", !.node = n, !.status = "ok"]
    /\ UNCHANGED <<parent, children, dirty, visited, joint, counter, frame>>

SetParent ==
    /\ Idle
    /\ \E n \in objects, p \in objects \cup {Null} :
       \E r \in {setParent(n, p)} :
        /\ parent' = r.parent
        /\ children' = r.children
        /\ dirty' = r.dirty
        /\ last' = [NoCall EXCEPT !.op = "setParent", !.node = n, !.arg = p,
                                  !.status = r.status, !.marked = r.marked]
    /\ UNCHANGED <<objects, visited, joint, counter, features, frame>>

SetDirty ==
    /\ Idle
    /\ \E n \in objects :
       \E r \in {setDirty([dirty |-> dirty, marked |-> <<>>], children, n)} :
        /\ dirty' = r.dirty
        /\ last' = [NoCall EXCEPT !.op = "setDirty", !.node = n,
                                  !.status = IF dirty[n] THEN "alreadyDirty" ELSE "ok",
                                  !.marked = r.marked]
    /\ UNCHANGED <<objects, parent, children, visited, joint, counter, features, frame>>

SetClean ==
    /\ Idle
    /\ \E n \in objects :
       \E r \in {setClean(n)} :
        /\ dirty' = r.dirty
        /\ last' = [NoCall EXCEPT !.op = "setClean", !.node = n, !.status = r.status,
                                  !.commits = r.commits, !.hooks = r.hooks,
                                  !.conversions = r.conversions]
    /\ UNCHANGED <<objects, parent, children, visited, joint, counter, features, frame>>

SetCleanObjects ==
    /\ Idle
    /\ \E objs \in TargetLists(MaxTargets) :
       \E r \in {setCleanObjects(objs)} :
        /\ dirty' = r.dirty
        /\ visited' = r.visited
        /\ joint' = r.joint
        /\ counter' = r.counter
        /\ last' = [NoCall EXCEPT !.op = "setCleanObjects", !.targets = objs,
                                  !.status = r.status, !.commits = r.commits,
                                  !.hooks = r.hooks, !.conversions = r.conversions,
                                  !.kept = r.kept,
                                  !.result = r.expanded, !.composes = r.composes,
                                  !.reads = r.reads, !.jointObjects = r.jointObjects,
                                  !.walkJoint = r.walkJoint,
                                  !.walkCounter = r.walkCounter]
    /\ UNCHANGED <<objects, parent, children, features, frame>>

AbsoluteTransformation ==
    /\ Idle
    /\ \E n \in objects :
        last' = [NoCall EXCEPT !.op = "absoluteTransformation", !.node = n,
                               !.status = "ok", !.result = <<absoluteTransformation(n)>>]
    /\ UNCHANGED <<objects, parent, children, dirty, visited, joint, counter, features, frame>>

\* The initial transformation matters only to a query that gets past the
\* check of line 201, so a query on a non-Scene object is tried with one value.
InitialTransformations(self) ==
    IF isScene(self) THEN {Identity, InitialGenerator} ELSE {Identity}

\* The record of the query self.transformations(objs, T0) that ended as r.
returned(self, objs, T0, r) ==
    [NoCall EXCEPT !.op = "transformations", !.node = self, !.targets = objs,
                   !.T0 = T0, !.status = r.status, !.result = r.result,
                   !.composes = r.composes, !.reads = r.reads,
                   !.jointObjects = r.jointObjects,
                   !.walkJoint = r.walkJoint,
                   !.walkCounter = r.walkCounter]

\* self.transformations(objs, T0), the call and its return.
TransformationsCall(self, objs, T0) ==
    /\ \E r \in {transformations([dirty |-> dirty, visited |-> visited, joint |-> joint,
                                  counter |-> counter], self, objs, T0)} :
        /\ dirty' = r.dirty
        /\ visited' = r.visited
        /\ joint' = r.joint
        /\ counter' = r.counter
        /\ last' = returned(self, objs, T0, r)
    /\ UNCHANGED <<objects, parent, children, features, frame>>

Transformations ==
    /\ Idle
    /\ \E self \in objects, objs \in TargetLists(MaxTargets) :
       \E T0 \in InitialTransformations(self) : TransformationsCall(self, objs, T0)

\* The caller goes on to its next call, unless the last one ended in a failed
\* assertion.
CallerContinues ==
    /\ last.op # "none"
    /\ frame.pc = "none"
    /\ last.status \notin AssertStatuses
    /\ last' = NoCall
    /\ UNCHANGED <<objects, parent, children, dirty, visited, joint, counter, features, frame>>

Init ==
    /\ objects = {Scene}
    /\ parent = [n \in Universe |-> Null]
    /\ children = [n \in Universe |-> <<>>]
    /\ dirty = [n \in Universe |-> TRUE]
    /\ visited = [n \in Universe |-> FALSE]
    /\ joint = [n \in Universe |-> FALSE]
    /\ counter = [n \in Universe |-> NoCounter]
    /\ features = [n \in Universe |-> <<>>]
    /\ last = NoCall
    /\ frame = NoFrame

\* A call is made only when the previous one has returned and its record was
\* dropped.
Next ==
    \/ Create
    \/ SetParent
    \/ SetDirty
    \/ SetClean
    \/ SetCleanObjects
    \/ AbsoluteTransformation
    \/ Transformations
    \/ CallerContinues

Spec == Init /\ [][Next]_vars

(***************************************************************************)
(* The capacity specification: every forest of MaxObjects + 1 objects in   *)
(* which the Scene is a root (children in the order of ascending           *)
(* setParent calls), freshly built and therefore all dirty, queried on the *)
(* Scene with lists of up to IndexLimit objects.                           *)
(***************************************************************************)
RECURSIVE ReachesNull(_, _, _)
ReachesNull(f, n, k) ==
    IF n = Null THEN TRUE
    ELSE IF k = 0 THEN FALSE
    ELSE ReachesNull(f, f[n], k - 1)

Forests ==
    {f \in [Universe -> Universe \cup {Null}] :
        /\ f[Scene] = Null
        /\ \A n \in Universe : ReachesNull(f, n, Cardinality(Universe))}

RECURSIVE Ascending(_)
Ascending(S) ==
    IF S = {} THEN <<>>
    ELSE LET m == CHOOSE x \in S : \A y \in S : x <= y
         IN  <<m>> \o Ascending(S \ {m})

InitCapacity ==
    /\ objects = Universe
    /\ parent \in Forests
    /\ children = [n \in Universe |-> Ascending({c \in Universe : parent[c] = n})]
    /\ dirty = [n \in Universe |-> TRUE]
    /\ visited = [n \in Universe |-> FALSE]
    /\ joint = [n \in Universe |-> FALSE]
    /\ counter = [n \in Universe |-> NoCounter]
    /\ features = [n \in Universe |-> FeaturesAtCreation(n)]
    /\ last = NoCall
    /\ frame = NoFrame

TransformationsOfScene ==
    /\ Idle
    /\ \E objs \in TargetLists(IndexLimit) : TransformationsCall(Scene, objs, Identity)

NextCapacity ==
    \/ TransformationsOfScene
    \/ CallerContinues

SpecCapacity == InitCapacity /\ [][NextCapacity]_vars

(***************************************************************************)
(* The clean-commit specification: the Scene with one child, which carries *)
(* any list of up to MaxFeatures features; a dirty object is committed     *)
(* with its absolute transformation, as setClean() and setClean(objects)   *)
(* do it, under the identity or another initial transformation.            *)
(***************************************************************************)
FeatureLists == UNION {[1..k -> CachedTransformations] : k \in 0..MaxFeatures}

InitCommit ==
    /\ objects = {Scene, 1}
    /\ parent = [n \in Universe |-> IF n = 1 THEN Scene ELSE Null]
    /\ children = [n \in Universe |-> IF n = Scene THEN <<1>> ELSE <<>>]
    /\ dirty = [n \in Universe |-> TRUE]
    /\ visited = [n \in Universe |-> FALSE]
    /\ joint = [n \in Universe |-> FALSE]
    /\ counter = [n \in Universe |-> NoCounter]
    /\ \E fs \in FeatureLists :
          features = [n \in Universe |-> IF n = 1 THEN fs ELSE <<>>]
    /\ last = NoCall
    /\ frame = NoFrame

SetCleanTransformation ==
    /\ Idle
    /\ \E o \in objects, T0 \in {Identity, InitialGenerator} :
        /\ dirty[o]
        /\ \E c \in {setCleanTransformation(NoCommits(dirty), o,
                                            compose(T0, absoluteTransformation(o)))} :
            /\ dirty' = c.dirty
            /\ last' = [NoCall EXCEPT !.op = "setCleanTransformation", !.node = o,
                                      !.T0 = T0, !.status = c.status,
                                      !.commits = c.commits, !.hooks = c.hooks,
                                      !.conversions = c.conversions]
    /\ UNCHANGED <<objects, parent, children, visited, joint, counter, features, frame>>

NextCommit ==
    \/ SetCleanTransformation
    \/ CallerContinues

SpecCommit == InitCommit /\ [][NextCommit]_vars

(***************************************************************************)
(* The step specification: the batch query of the Scene run one loop       *)
(* iteration and one call or return at a time, on every forest of          *)
(* MaxObjects objects in which the Scene is a root.  frame holds the       *)
(* locals of the running query:                                            *)
(*   pc       "walk" in the loop of lines 205-242, "compute" in lines      *)
(*            245-249                                                      *)
(*   q        the locals of transformations(), as in the call at once      *)
(*   i        the index of the loop of lines 248-249                       *)
(*   stack    the open calls of computeJointTransformation()               *)
(***************************************************************************)
StepObjects == 0..(MaxObjects - 1)

InitSteps ==
    /\ objects = StepObjects
    /\ parent \in {f \in Forests : \A n \in Universe \ StepObjects :
                                      f[n] = Null /\ \A m \in Universe : f[m] # n}
    /\ children = [n \in Universe |-> Ascending({c \in Universe : parent[c] = n})]
    /\ dirty = [n \in Universe |-> n \in StepObjects]
    /\ visited = [n \in Universe |-> FALSE]
    /\ joint = [n \in Universe |-> FALSE]
    /\ counter = [n \in Universe |-> NoCounter]
    /\ features = [n \in Universe |-> <<>>]
    /\ last = NoCall
    /\ frame = NoFrame

\* The query goes on in frame f with the locals r, or has returned early
\* from a failed assertion.
QueryGoesOn(f, r) ==
    /\ dirty' = r.dirty
    /\ visited' = r.visited
    /\ joint' = r.joint
    /\ counter' = r.counter
    /\ IF r.status = "ok"
       THEN frame' = [f EXCEPT !.q = r] /\ last' = last
       ELSE frame' = NoFrame /\ last' = returned(f.self, f.targets, f.T0, r)
    /\ UNCHANGED <<objects, parent, children, features>>

\* Lines 180-203: the call, up to the first test of the walk.
QueryStarts ==
    /\ Idle
    /\ \E objs \in TargetLists(MaxTargets) :
       \E r \in {startQuery([dirty |-> dirty, visited |-> visited, joint |-> joint,
                             counter |-> counter], Scene, objs)} :
          QueryGoesOn([pc |-> "walk", self |-> Scene, targets |-> objs, T0 |-> Identity,
                       i |-> 0, stack |-> <<>>, q |-> r], r)

\* Lines 205-241: one iteration of the walk.  (A walk that the assertion of
\* line 219 ends leaves its joint marks as they are.)
WalkStep ==
    /\ frame.pc = "walk"
    /\ frame.q.objects # <<>>
    /\ \E r \in {walkStep(frame.q, frame.self)} :
          QueryGoesOn(frame, IF r.status = "ok" THEN r
                             ELSE [r EXCEPT !.walkJoint = r.joint, !.walkCounter = r.counter])

\* Lines 205, 245: the work list is empty, the walk is over.
WalkEnds ==
    /\ frame.pc = "walk"
    /\ frame.q.objects = <<>>
    /\ \E r \in {jointTransformations([frame.q EXCEPT !.walkJoint = frame.q.joint,
                                                      !.walkCounter = frame.q.counter])} :
          QueryGoesOn([frame EXCEPT !.pc = "compute"], r)

\* Lines 248-249: the call for the next joint.
ComputeJoint ==
    /\ frame.pc = "compute"
    /\ frame.stack = <<>>
    /\ frame.i # Len(frame.q.jt)
    /\ QueryGoesOn([frame EXCEPT !.i = @ + 1,
                                 !.stack = <<[jnt |-> frame.i, o |-> Null, pc |-> "enter"]>>],
                   frame.q)

\* Lines 272-307: one step of the innermost open call.
ComputeStep ==
    /\ frame.pc = "compute"
    /\ frame.stack # <<>>
    /\ \E c \in {computeStep(frame.q, frame.stack, frame.T0)} :
          QueryGoesOn([frame EXCEPT !.stack = c.stack], c.q)

\* Lines 248, 251-269: every joint is computed, the query returns.
QueryReturns ==
    /\ frame.pc = "compute"
    /\ frame.stack = <<>>
    /\ frame.i = Len(frame.q.jt)
    /\ \E r \in {finishJoints(frame.q, Len(frame.targets))} :
        /\ dirty' = r.dirty
        /\ visited' = r.visited
        /\ joint' = r.joint
        /\ counter' = r.counter
        /\ last' = returned(frame.self, frame.targets, frame.T0, r)
        /\ frame' = NoFrame
    /\ UNCHANGED <<objects, parent, children, features>>

NextSteps ==
    \/ QueryStarts
    \/ WalkStep
    \/ WalkEnds
    \/ ComputeJoint
    \/ ComputeStep
    \/ QueryReturns
    \/ CallerContinues

\* A call that has started keeps running: the program is sequential, nothing
\* else is scheduled while transformations() runs.
QueryRuns ==
    /\ WF_vars(WalkStep)
    /\ WF_vars(WalkEnds)
    /\ WF_vars(ComputeJoint)
    /\ WF_vars(ComputeStep)
    /\ WF_vars(QueryReturns)

SpecSteps == InitSteps /\ [][NextSteps]_vars /\ QueryRuns

(***************************************************************************)
(* Vocabulary of the properties, defined on the tree alone.                *)
(***************************************************************************)
NoMarks ==
    \A n \in Universe : ~visited[n] /\ ~joint[n] /\ counter[n] = NoCounter

\* The proper ancestors of n, following at most k parent links.
RECURSIVE AncestorsWithin(_, _)
AncestorsWithin(n, k) ==
    IF k = 0 \/ parent[n] = Null THEN {}
    ELSE {parent[n]} \cup AncestorsWithin(parent[n], k - 1)

Ancestors(n) == AncestorsWithin(n, Cardinality(objects))
Descendants(n) == {d \in objects : n \in Ancestors(d)}
PathToRoot(n) == {n} \cup Ancestors(n)
InSceneTree(n) == Scene \in PathToRoot(n)

\* A query the preconditions of transformations() allow: called on the Scene,
\* every target in the Scene's tree, and no capacity error.
ProperQuery ==
    /\ last.op = "transformations"
    /\ isScene(last.node)
    /\ \A i \in 1..Len(last.targets) : InSceneTree(last.targets[i])
    /\ last.status # "tooLarge"

(***************************************************************************)
(* C1: a batch query on the Scene over targets of the Scene's tree returns *)
(* normally, with one entry per target position in input order, and entry  *)
(* i is compose(T0, absoluteTransformation(targets[i])); with T0 the       *)
(* identity it is absoluteTransformation(targets[i]); positions holding    *)
(* the same object hold the same value.                                    *)
(***************************************************************************)
C1_BatchAgreesWithReference ==
    ProperQuery =>
        /\ last.status = "ok"
        /\ Len(last.result) = Len(last.targets)
        /\ \A i \in 1..Len(last.targets) :
              /\ last.result[i] = compose(last.T0, absoluteTransformation(last.targets[i]))
              /\ last.T0 = Identity =>
                    last.result[i] = absoluteTransformation(last.targets[i])
              /\ \A j \in 1..Len(last.targets) :
                    last.targets[i] = last.targets[j] => last.result[i] = last.result[j]

\* The query [B, A, B] on Scene -> A -> B with a non-identity T0 has returned.
C1_Witness ==
    /\ ProperQuery
    /\ last.status = "ok"
    /\ last.T0 # Identity
    /\ Len(last.targets) = 3
    /\ last.targets[1] = last.targets[3]
    /\ parent[last.targets[1]] = last.targets[2]
    /\ parent[last.targets[2]] = Scene

(***************************************************************************)
(* C2: while every call has returned normally, no object carries a         *)
(* transient mark (visited, joint, counter), and a batch query returns     *)
(* what the same query returns on objects that never carried a mark.       *)
(***************************************************************************)
FreshMarks ==
    [dirty |-> dirty,
     visited |-> [n \in Universe |-> FALSE], joint |-> [n \in Universe |-> FALSE],
     counter |-> [n \in Universe |-> NoCounter]]

C2_NoMarksAfterNormalReturn ==
    last.status \notin AssertStatuses =>
        /\ NoMarks
        /\ last.op = "transformations" =>
              last.result = transformations(FreshMarks, last.node, last.targets, last.T0).result

\* A query that promoted an ancestor to a joint, or a batch clean that ran
\* the solver on an expanded list, has returned normally.
C2_Witness ==
    /\ last.status = "ok"
    /\ last.op \in {"transformations", "setCleanObjects"}
    /\ Len(last.jointObjects) > Len(last.targets)
    /\ \E n \in objects \ {Scene} : ~dirty[n]
    /\ NoMarks

(***************************************************************************)
(* C3: a batch query that exits early on a usage error (called on an       *)
(* object that is not the Scene, or a target whose ancestor chain ends at  *)
(* a parentless object other than the Scene) returns an empty result and   *)
(* leaves the transient marks of every object reset.                       *)
(***************************************************************************)
C3_UsageErrorLeavesNoMarks ==
    (last.op = "transformations" /\ last.status \in {"notScene", "notSameTree"}) =>
        (last.result = <<>> /\ NoMarks)

(***************************************************************************)
(* C4: a batch query that fails with the capacity error, at the check of   *)
(* the target count or at the check of the joint list during the ancestor  *)
(* walk, returns an empty result and leaves the marks, the dirty flags and *)
(* the tree links as they were before the call.                            *)
(***************************************************************************)
C4_CapacityErrorLeavesStateUnchanged ==
    (last.op = "transformations" /\ last.status = "tooLarge") =>
        (last.result = <<>> /\ NoMarks)

(***************************************************************************)
(* C5: in one batch query the local transformation of an object is read    *)
(* exactly once if the object lies on the root path of some target and     *)
(* never otherwise, and the number of compose calls is the number of       *)
(* distinct objects on the union of those paths.                           *)
(***************************************************************************)
PathUnion(targets) == UNION {PathToRoot(targets[i]) : i \in 1..Len(targets)}

C5_EachTransformationComposedOnce ==
    ProperQuery =>
        /\ last.status = "ok"
        /\ \A n \in Universe :
              last.reads[n] = IF n \in PathUnion(last.targets) THEN 1 ELSE 0
        /\ last.composes = Cardinality(PathUnion(last.targets))

\* Three targets, two of them the same object, two of them sharing a parent
\* below the Scene: four objects on the paths, four compositions.
C5_Witness ==
    /\ ProperQuery
    /\ last.status = "ok"
    /\ Len(last.targets) = 3
    /\ last.targets[1] = last.targets[2]
    /\ last.targets[1] # last.targets[3]
    /\ parent[last.targets[1]] = parent[last.targets[3]]
    /\ parent[last.targets[1]] \notin {Null, Scene}
    /\ last.composes = 4

(***************************************************************************)
(* C6: invariant I4 at every call boundary: every child of a dirty object  *)
(* is dirty; and when setDirty(N) has returned, N and every descendant of  *)
(* N are dirty.                                                            *)
(***************************************************************************)
C6_DirtyClosure ==
    /\ \A n \in objects : dirty[n] => \A d \in Descendants(n) : dirty[d]
    /\ last.op = "setDirty" =>
          \A d \in {last.node} \cup Descendants(last.node) : dirty[d]

\* setDirty on a clean object with a clean grandchild has returned.
C6_Witness ==
    /\ last.op = "setDirty"
    /\ last.status = "ok"
    /\ Len(last.marked) >= 3
    /\ \E d \in Descendants(last.node) : parent[d] # last.node

(***************************************************************************)
(* C7: the parent relation is acyclic: from every object the parent links  *)
(* reach a parentless object within |objects| steps, and no object is its  *)
(* own ancestor.                                                           *)
(***************************************************************************)
C7_ParentsAcyclic ==
    \A n \in objects :
        /\ ReachesNull(parent, n, Cardinality(objects))
        /\ n \notin Ancestors(n)

\* setParent has refused to put an object under its own grandchild.
C7_Witness ==
    /\ last.op = "setParent"
    /\ last.status = "cycle"
    /\ last.arg \in objects
    /\ parent[last.arg] \notin {Null, last.node}
    /\ last.node \in Ancestors(last.arg)

(***************************************************************************)
(* C8: a setParent(node, newParent) call with newParent already the parent *)
(* of node, with node the Scene, or with newParent node itself or one of   *)
(* its descendants changes no parent link, child list or dirty flag.       *)
(***************************************************************************)
Rejected(n, p) ==
    \/ p = parent[n]
    \/ isScene(n)
    \/ p = n
    \/ p \in Descendants(n)

C8_RejectedSetParentChangesNothing ==
    [][(last'.op = "setParent" /\ Rejected(last'.node, last'.arg)) =>
            (parent' = parent /\ children' = children /\ dirty' = dirty)]_vars

\* A clean object has been asked to move under its own clean child.
C8_Witness ==
    /\ last.op = "setParent"
    /\ last.arg \in Descendants(last.node)
    /\ ~dirty[last.node]
    /\ ~dirty[last.arg]

(***************************************************************************)
(* C9: any other setParent(node, newParent) call takes node out of its old *)
(* parent's child list, puts it into newParent's, sets node's parent link, *)
(* leaves every other link and child list alone (node keeps its children), *)
(* and leaves node and its whole subtree dirty.                            *)
(***************************************************************************)
C9_SetParentMovesAndDirties ==
    [][(last'.op = "setParent" /\ ~Rejected(last'.node, last'.arg)) =>
         LET n == last'.node
             p == last'.arg
             old == parent[n]
         IN  /\ parent' = [parent EXCEPT ![n] = p]
             /\ \A m \in Universe :
                   children'[m] = IF m = p THEN Append(Cut(children[m], n), n)
                                  ELSE IF m = old THEN Cut(children[m], n)
                                  ELSE children[m]
             /\ old # Null => n \notin Range(children'[old])
             /\ p # Null => n \in Range(children'[p])
             /\ \A d \in {n} \cup Descendants(n) : dirty'[d]]_vars

\* A clean object with a clean child has moved from one parent to another.
C9_Witness ==
    /\ last.op = "setParent"
    /\ last.status = "ok"
    /\ last.arg # Null
    /\ Len(last.marked) >= 2
    /\ children[last.node] # <<>>
    /\ \E m \in objects \ {last.arg} : dirty[m] /\ children[m] # <<>>

(***************************************************************************)
(* C10 as claimed: no setParent call turns an object that has a parent     *)
(* into a parentless one.                                                  *)
(***************************************************************************)
C10_NoObjectLosesItsParent ==
    [][\A n \in objects : parent[n] # Null => parent'[n] # Null]_vars

(***************************************************************************)
(* C10 as amended: the Scene never has a parent; an object loses its       *)
(* parent only by its own setParent(nullptr) call; and that call, on an    *)
(* object that has a parent, does detach it.                               *)
(***************************************************************************)
C10_OnlySetParentNullDetaches ==
    [][/\ parent'[Scene] = Null
       /\ \A n \in objects :
             (parent[n] # Null /\ parent'[n] = Null) =>
                 (last'.op = "setParent" /\ last'.node = n /\ last'.arg = Null)
       /\ (last'.op = "setParent" /\ last'.arg = Null /\ ~isScene(last'.node)) =>
             parent'[last'.node] = Null]_vars

\* An object that had a parent and a child has been detached.
C10_Witness ==
    /\ last.op = "setParent"
    /\ last.status = "ok"
    /\ last.arg = Null
    /\ parent[last.node] = Null
    /\ children[last.node] # <<>>

(***************************************************************************)
(* C11: a batch setClean on objects of the Scene's tree that returns (no   *)
(* assertion failed) leaves every listed object and every ancestor of a    *)
(* listed object clean, and the dirty flag of every other object as it     *)
(* was.                                                                    *)
(***************************************************************************)
C11_BatchCleanCleansPathsOnly ==
    [][(/\ last'.op = "setCleanObjects"
        /\ last'.status \notin AssertStatuses
        /\ \A i \in 1..Len(last'.targets) : InSceneTree(last'.targets[i]))
       => \A n \in objects :
             IF n \in PathUnion(last'.targets) THEN ~dirty'[n]
             ELSE dirty'[n] = dirty[n]]_vars

\* A batch clean of one object has committed the object and two ancestors
\* that were not listed, and an object off the path is still dirty.
C11_Witness ==
    /\ last.op = "setCleanObjects"
    /\ last.status = "ok"
    /\ Len(last.targets) = 1
    /\ Len(last.commits) = 3
    /\ \E n \in objects : dirty[n] /\ InSceneTree(n)

(***************************************************************************)
(* C12: within one batch setClean no object is committed twice, and no     *)
(* feature gets the hook of one kind twice.                                *)
(***************************************************************************)
C12_CommittedAtMostOnce ==
    last.op = "setCleanObjects" =>
        /\ \A i, j \in 1..Len(last.commits) :
              last.commits[i][1] = last.commits[j][1] => i = j
        /\ \A i, j \in 1..Len(last.hooks) :
              (/\ last.hooks[i][1] = last.hooks[j][1]
               /\ last.hooks[i][2] = last.hooks[j][2]
               /\ last.hooks[i][3] = last.hooks[j][3]) => i = j

\* The list handed to the solver held an object with features twice, and the
\* pass has returned.
C12_Witness ==
    /\ last.op = "setCleanObjects"
    /\ last.status = "ok"
    /\ \E i, j \in 1..Len(last.result) :
          /\ i < j
          /\ last.result[i] = last.result[j]
          /\ features[last.result[i]] # <<>>
    /\ \E i, j \in 1..Len(last.targets) : i < j /\ last.targets[i] = last.targets[j]

(***************************************************************************)
(* C13: setClean(objects) on objects that are all clean, and setClean() on *)
(* a clean object, commit nothing, call no feature hook, do not run the    *)
(* solver and change no flag, mark or link.                                *)
(***************************************************************************)
C13_CleanOfCleanDoesNothing ==
    [][(\/ /\ last'.op = "setCleanObjects"
           /\ \A i \in 1..Len(last'.targets) : ~dirty[last'.targets[i]]
        \/ /\ last'.op = "setClean"
           /\ ~dirty[last'.node])
       => /\ UNCHANGED <<tree, dirty, marks, features>>
          /\ last'.commits = <<>>
          /\ last'.hooks = <<>>
          /\ last'.conversions = <<>>
          /\ last'.composes = 0
          /\ \A n \in Universe : last'.reads[n] = 0
          /\ last'.jointObjects = <<>>]_vars

\* A batch clean of three clean objects has returned while another object
\* is dirty.
C13_Witness ==
    /\ last.op = "setCleanObjects"
    /\ last.status = "nothingDirty"
    /\ Len(last.targets) = 3
    /\ \E n \in objects : dirty[n]

(***************************************************************************)
(* C14: one clean-commit converts the transformation to a matrix once if   *)
(* some feature asks for Absolute and never otherwise, and the inverted    *)
(* one likewise for InvertedAbsolute; every feature gets one hook call for *)
(* each kind it asks for and none for the other; the hooks of one kind get *)
(* the same matrix; the object is clean afterwards.                        *)
(***************************************************************************)
Count(seq, Test(_)) == Cardinality({i \in 1..Len(seq) : Test(seq[i])})

C14_CommitConvertsOncePerKind ==
    last.op = "setCleanTransformation" =>
        LET o == last.node
            fs == features[o]
        IN  /\ \A kind \in {Absolute, InvertedAbsolute} :
                  /\ Count(last.conversions, LAMBDA x : x = <<o, kind>>)
                        = IF \E i \in 1..Len(fs) : kind \in fs[i] THEN 1 ELSE 0
                  /\ \A i \in 1..Len(fs) :
                        Count(last.hooks, LAMBDA h : h[1] = o /\ h[2] = i /\ h[3] = kind)
                           = IF kind \in fs[i] THEN 1 ELSE 0
                  /\ \A i, j \in 1..Len(last.hooks) :
                        (last.hooks[i][3] = kind /\ last.hooks[j][3] = kind)
                           => last.hooks[i][4] = last.hooks[j][4]
            /\ Len(last.conversions) <= 2
            /\ ~dirty[o]

\* An object with three features, of which two ask for Absolute and two for
\* InvertedAbsolute, was committed: four hook calls, two conversions.
C14_Witness ==
    /\ last.op = "setCleanTransformation"
    /\ Len(features[last.node]) = 3
    /\ Len(last.hooks) = 4
    /\ Len(last.conversions) = 2
    /\ last.hooks[1][4] # last.hooks[4][4]

(***************************************************************************)
(* C15: setDirty on a dirty object visits no object, marks no feature      *)
(* dirty and changes nothing; after any setDirty the object is dirty, so   *)
(* a second setDirty on it gives the state the first one gave.             *)
(***************************************************************************)
C15_SetDirtyIdempotent ==
    [][last'.op = "setDirty" =>
          /\ dirty[last'.node] =>
                (UNCHANGED <<tree, dirty, marks, features>> /\ last'.marked = <<>>)
          /\ dirty'[last'.node]
          /\ setDirty([dirty |-> dirty', marked |-> <<>>], children', last'.node)
                = [dirty |-> dirty', marked |-> <<>>]]_vars

\* setDirty was called on a dirty object that has a child and a feature,
\* while another object is clean.
C15_Witness ==
    /\ last.op = "setDirty"
    /\ last.status = "alreadyDirty"
    /\ children[last.node] # <<>>
    /\ features[last.node] # <<>>
    /\ \E n \in objects : ~dirty[n]

(***************************************************************************)
(* C16: absoluteTransformation() and a batch query that returns normally   *)
(* change no dirty flag, parent link, child list or feature list.          *)
(***************************************************************************)
C16_ReadsLeaveCacheAlone ==
    [][(\/ last'.op = "absoluteTransformation"
        \/ last'.op = "transformations" /\ last'.status = "ok")
       => UNCHANGED <<tree, dirty, features>>]_vars

\* A query on a dirty and a clean target has returned normally; the dirty
\* one is still dirty.
C16_Witness ==
    /\ last.op = "transformations"
    /\ last.status = "ok"
    /\ \E i, j \in 1..Len(last.targets) :
          dirty[last.targets[i]] /\ ~dirty[last.targets[j]]

(***************************************************************************)
(* C17: when the ancestor walk of a proper batch query ends, the joints    *)
(* are the targets and the objects with two or more children on the union  *)
(* of the targets' root paths, and every joint that is not a target is in  *)
(* jointObjects exactly once, at the position its counter names.           *)
(***************************************************************************)
ChildrenOnPaths(n, targets) == {c \in PathUnion(targets) : parent[c] = n}

C17_JointsAreTargetsAndBranchPoints ==
    ProperQuery =>
        /\ \A n \in Universe :
              last.walkJoint[n] <=>
                 \/ n \in Range(last.targets)
                 \/ Cardinality(ChildrenOnPaths(n, last.targets)) >= 2
        /\ \A n \in Universe :
              (last.walkJoint[n] /\ n \notin Range(last.targets)) =>
                 /\ Cardinality({i \in 1..Len(last.jointObjects) : last.jointObjects[i] = n}) = 1
                 /\ last.walkCounter[n] < Len(last.jointObjects)
                 /\ last.jointObjects[last.walkCounter[n] + 1] = n

\* The walk promoted a branch point and passed an object with one child on
\* the paths, which stayed a non-joint.
C17_Witness ==
    /\ ProperQuery
    /\ last.status = "ok"
    /\ Len(last.jointObjects) = Len(last.targets) + 1
    /\ \E n \in objects :
          /\ ~last.walkJoint[n]
          /\ Cardinality(ChildrenOnPaths(n, last.targets)) = 1

(***************************************************************************)
(* C18: in the list a batch setClean hands to the solver, no object is     *)
(* appended that the list already holds: an object is held twice only      *)
(* where the caller listed it twice.                                       *)
(***************************************************************************)
C18_AncestorsAppendedOnce ==
    last.op = "setCleanObjects" =>
        \A i, j \in 1..Len(last.result) :
           (i < j /\ last.result[i] = last.result[j]) => j <= last.kept

(***************************************************************************)
(* C19: a batch setClean commits an object only after every ancestor that  *)
(* the pass commits.                                                       *)
(***************************************************************************)
C19_AncestorsCommittedFirst ==
    last.op = "setCleanObjects" =>
        \A k, j \in 1..Len(last.commits) :
           last.commits[j][1] \in Ancestors(last.commits[k][1]) => j < k

(***************************************************************************)
(* C20: every commit of a batch setClean carries the absolute              *)
(* transformation of the object it commits, as absoluteTransformation()    *)
(* gives it on the tree of the call.                                       *)
(***************************************************************************)
C20_CommitsCarryAbsoluteTransformation ==
    last.op = "setCleanObjects" =>
        \A k \in 1..Len(last.commits) :
           last.commits[k][2] = absoluteTransformation(last.commits[k][1])

\* The pass committed two listed objects and their parent, which the list
\* handed to the solver held twice.
C20_Witness ==
    /\ last.op = "setCleanObjects"
    /\ last.status = "ok"
    /\ Len(last.commits) = 3
    /\ Len(last.result) = 4
    /\ last.result[3] = last.result[4]
    /\ last.commits[3][1] = last.result[3]

(***************************************************************************)
(* C21: setClean() on a dirty object N commits N and the dirty ancestors   *)
(* of N up to, not including, the nearest clean ancestor (or up to the     *)
(* parentless root), the topmost first, each with its absolute             *)
(* transformation; every object off that chain keeps its dirty flag and N  *)
(* is clean on return.                                                     *)
(***************************************************************************)
\* N and its dirty ancestors below the nearest clean one, the topmost first.
RECURSIVE DirtyChain(_)
DirtyChain(n) ==
    IF parent[n] = Null \/ ~dirty[parent[n]] THEN <<n>>
    ELSE Append(DirtyChain(parent[n]), n)

C21_SetCleanCommitsDirtyChainTopDown ==
    [][(last'.op = "setClean" /\ dirty[last'.node]) =>
          LET chain == DirtyChain(last'.node) IN
          /\ last'.status = "ok"
          /\ last'.commits =
                [i \in 1..Len(chain) |-> <<chain[i], absoluteTransformation(chain[i])>>]
          /\ \A n \in objects :
                dirty'[n] = IF n \in Range(chain) THEN FALSE ELSE dirty[n]
          /\ ~dirty'[last'.node]]_vars

\* setClean() has committed an object and its parent below a clean Scene,
\* and an object off the chain is still dirty.
C21_Witness ==
    /\ last.op = "setClean"
    /\ last.status = "ok"
    /\ Len(last.commits) = 2
    /\ parent[last.commits[1][1]] = Scene
    /\ last.commits[2][1] = last.node
    /\ \E n \in objects : dirty[n] /\ InSceneTree(n)

(***************************************************************************)
(* C22: the batch query terminates on every finite acyclic tree and every  *)
(* finite target list (an empty list, duplicates and targets nested under  *)
(* each other included): each iteration of the walk over the work list     *)
(* either removes one entry or replaces one entry by its parent, which was *)
(* not visited yet, the walk is left for the joint computation only with   *)
(* an empty work list, and a query that runs leads to a query that has     *)
(* returned, through the walk and through the recursive joint computation. *)
(***************************************************************************)
\* The work list old with its entry i removed.
Removed(old, i) == SubSeq(old, 1, i - 1) \o SubSeq(old, i + 1, Len(old))

\* One iteration of the walk, from the work list old to the work list new.
ShrinksOrClimbs(old, new) ==
    \E i \in 1..Len(old) :
        \/ new = Removed(old, i)
        \/ /\ parent[old[i]] # Null
           /\ ~visited[parent[old[i]]]
           /\ new = [old EXCEPT ![i] = parent[old[i]]]

C22_QueryTerminates ==
    /\ [][/\ (frame.pc = "walk" /\ frame'.pc = "walk") =>
                ShrinksOrClimbs(frame.q.objects, frame'.q.objects)
          /\ (frame.pc = "walk" /\ frame'.pc = "compute") =>
                frame.q.objects = <<>>]_vars
    /\ (frame.pc = "walk") ~> (frame.pc # "walk")
    /\ (frame.pc = "compute") ~> (frame.pc = "none")

\* A query over a target, the same target again and a target nested under it
\* has gone through the walk and the joint computation and has returned.
C22_Witness ==
    /\ frame.pc = "none"
    /\ last.op = "transformations"
    /\ last.status = "ok"
    /\ Len(last.result) = Len(last.targets)
    /\ \E i, j, k \in 1..Len(last.targets) :
        /\ i # j
        /\ last.targets[i] = last.targets[j]
        /\ last.targets[i] \in Ancestors(last.targets[k])

====
